---- MODULE Spec2Model ----
(***************************************************************************)
(* Model of the private chat screen (src/src/pages/PrivateChat.tsx) and of  *)
(* the enrolled classes screen (src/src/pages/MyClasses.tsx).              *)
(*                                                                         *)
(* The backing store (tables, realtime channels, requests in flight) is    *)
(* part of the state.  Every asynchronous function of the component is     *)
(* split at its awaits: the part before an await is one action, the        *)
(* server's handling of the request is one action, and the continuation    *)
(* after the await is one action.  A request that comes back with an error *)
(* is one action (the server changes nothing).                             *)
(*                                                                         *)
(* Closures.  A continuation reads selectedContact, newMessage and         *)
(* currentUserId from the render in which its function was invoked, so     *)
(* these values travel in the record of the request in flight.  An event   *)
(* handler is the one of the latest render: a state update made in a       *)
(* handler is rendered before the next event is dispatched, so a handler   *)
(* reads the current state.                                                *)
(*                                                                         *)
(* Channels.  supabase.channel(name) is keyed by its name (line 252), so   *)
(* the open channels are a set of contact ids; a channel delivers from the *)
(* moment it is opened, and the events of all channels arrive in the order *)
(* of the inserts.  The effect of lines 41-46 does not return the function *)
(* subscribeToMessages hands back, so nothing removes a channel.           *)
(*                                                                         *)
(* Tables.  "students" and "professionals" hold at most one row per        *)
(* user_id; created_at is set by the table and grows with every insert.    *)
(*                                                                         *)
(* Specifications:                                                         *)
(*   SpecContacts  initializeChat and the two contact resolvers, from the  *)
(*                 mount of the screen, over bounded backing data;         *)
(*   Spec          the chat session, starting in the state initializeChat  *)
(*                 leaves for a student "me" with professionals "a", "b";  *)
(*   SpecClasses   the enrolled classes screen from its mount, over        *)
(*                 bounded backing data; SpecClassesFair adds that every   *)
(*                 awaited call is answered.                               *)
(***************************************************************************)
EXTENDS Integers, Sequences, FiniteSets, TLC

\* ---------------------------------------------------------------- bounds
\* contact selections plus messages inserted (by the user or by other clients)
\* in one session of the screen
MaxOps == 3
\* rows of the enrollments table
MaxEnroll == 2
\* uses of a notification switch in one session of the classes screen
MaxToggles == 2

\* --------------------------------------------------------------- domains
Me == "me"
UserIds == {"me", "a", "b"}
ClassIds == {"k1", "k2"}
Statuses == {"active", "cancelled"}
\* input texts, as sequences of characters
Texts == {<<>>, <<" ", " ">>, <<" ", "h", " ">>}
\* the text other clients send
OtherText == <<"o">>

\* a Contact record (interface Contact); NullContact stands for null
NullContact == [id |-> "null", name |-> "", type |-> "", avatar_url |-> ""]

VARIABLES
  \* ---- backing store
  authUser,        \* supabase.auth.getUser(): a user id or "null"
  studentsTbl,     \* user ids that have a row in "students"
  professionalsTbl,\* user ids that have a row in "professionals"
  classesTbl,      \* class id -> professional_id
  enrollmentsTbl,  \* set of [student_id, class_id, status]
  store,           \* private_messages, a sequence of rows in insertion order
  channels,        \* open realtime channels, by the contact id of their filter
  rtQueue,         \* insert events on their way to the channel callbacks
  \* ---- component state (useState)
  currentUserId, userType, contacts, selectedContact, messages,
  newMessage, loading, sending,
  \* ---- control
  mounted,         \* FALSE once the screen is torn down
  pc,              \* position of initializeChat
  studentData, professionalData, \* locals of initializeChat
  ids,             \* local of the resolvers: classIds, then the deduplicated ids
  fetches,         \* fetchMessages calls suspended at their await
  markReads,       \* mark-read updates in flight
  sends,           \* handleSendMessage calls suspended at their await
  uuids,           \* crypto.randomUUID() calls made so far
  selects,         \* contact selections made so far
  selectedAt,      \* rows private_messages held when the selected contact was selected
  errorLogged,     \* console.error("Erro ao buscar contatos:", ...) was called
  toasts,          \* titles of the notifications shown so far
  invoked,         \* the form handler the last step invoked: "handleSendMessage" or "none"
  \* ---- MyClasses: component state (useState) and control
  loadingClasses,  \* loading of MyClasses
  enrolledClasses, \* the list of [enrollmentId, id]
  notifications,   \* Record<string, boolean>: class id -> flag
  classToasts,     \* the toasts MyClasses has shown, oldest first
  pcClasses,       \* position of fetchEnrolledClasses; "off": screen not mounted
  enrollResult     \* { data, error } of the enrollments query, once answered

storeVars == <<authUser, studentsTbl, professionalsTbl, classesTbl, enrollmentsTbl>>
initVars == <<currentUserId, userType, contacts, loading, pc, studentData,
              professionalData, ids, errorLogged>>
chatVars == <<store, channels, rtQueue, selectedContact, messages, newMessage,
              sending, mounted, fetches, markReads, sends, uuids, selects, selectedAt>>
classVars == <<loadingClasses, enrolledClasses, notifications, classToasts, pcClasses,
               enrollResult>>
vars == <<storeVars, initVars, chatVars, toasts, invoked, classVars>>

\* ------------------------------------------------------------- helpers
Range(s) == {s[i] : i \in 1..Len(s)}

RemoveAt(s, i) == SubSeq(s, 1, i - 1) \o SubSeq(s, i + 1, Len(s))

\* all the orders in which a set of rows can come back from a table
Orderings(S) ==
  {s \in [1..Cardinality(S) -> S] : \A i, j \in 1..Cardinality(S) : i # j => s[i] # s[j]}

IsSpace(ch) == ch = " "

\* String.prototype.trim
RECURSIVE TrimLeft(_)
TrimLeft(t) ==
  IF t # <<>> /\ IsSpace(Head(t)) THEN TrimLeft(Tail(t)) ELSE t

RECURSIVE TrimRight(_)
TrimRight(t) ==
  IF t # <<>> /\ IsSpace(t[Len(t)]) THEN TrimRight(SubSeq(t, 1, Len(t) - 1)) ELSE t

Trim(t) == TrimRight(TrimLeft(t))

FullName(u) == CASE u = "a" -> "Ana" [] u = "b" -> "Bia" [] OTHER -> "Eu"

Contact(u, t) == [id |-> u, name |-> FullName(u), type |-> t, avatar_url |-> "null"]

\* ------------------------------------------------- private_messages queries
\* HistoryFilter without its second and(...) group
HistoryFilter_OneWay(row, me, c) ==
  row.sender_id = me /\ row.recipient_id = c

\* .or(and(sender_id.eq.me,recipient_id.eq.c),and(sender_id.eq.c,recipient_id.eq.me))
HistoryFilter(row, me, c) ==
  \/ (row.sender_id = me /\ row.recipient_id = c)
  \/ (row.sender_id = c /\ row.recipient_id = me)

\* .order("created_at", { ascending: true })
RECURSIVE InsertByCreatedAt(_, _)
InsertByCreatedAt(row, s) ==
  IF s = <<>> THEN <<row>>
  ELSE IF row.created_at < Head(s).created_at THEN <<row>> \o s
  ELSE <<Head(s)>> \o InsertByCreatedAt(row, Tail(s))

RECURSIVE OrderByCreatedAt(_)
OrderByCreatedAt(s) ==
  IF s = <<>> THEN <<>>
  ELSE InsertByCreatedAt(s[Len(s)], OrderByCreatedAt(SubSeq(s, 1, Len(s) - 1)))

\* MarkReadFilter with the two identities swapped
MarkReadFilter_Swapped(row, me, c) ==
  row.recipient_id = c /\ row.sender_id = me /\ row.read = FALSE

\* .update({read: true}).eq("recipient_id", me).eq("sender_id", c).eq("read", false)
MarkReadFilter(row, me, c) ==
  row.recipient_id = me /\ row.sender_id = c /\ row.read = FALSE

\* the row the table gets for an insert of {sender_id, recipient_id, content}
NewRow(s, r, text) ==
  [id |-> Len(store) + 1, sender_id |-> s, recipient_id |-> r, content |-> text,
   read |-> FALSE, created_at |-> Len(store) + 1]

\* filter: `sender_id=eq.${selectedContact.id}` of the channel opened for c
ChannelFilter(row, c) == row.sender_id = c

\* the events an inserted row raises, one per channel whose filter it passes
RECURSIVE EventsFor(_, _)
EventsFor(row, chans) ==
  IF chans = {} THEN <<>>
  ELSE LET c == CHOOSE x \in chans : TRUE
       IN  (IF ChannelFilter(row, c) THEN <<[chan |-> c, new |-> row]>> ELSE <<>>)
           \o EventsFor(row, chans \ {c})

\* the callback of the channel: the test of payload.new.recipient_id
CallbackAccepts(row, me) == row.recipient_id = me

\* ------------------------------------------------------ MyClasses: state
\* the empty Record<string, boolean>
NoFlags == [c \in {} |-> TRUE]

\* an answer not yet received
NoResult == [data |-> <<>>, error |-> "null"]

\* the useState initial values of MyClasses
ClassesInitial ==
  /\ loadingClasses = TRUE
  /\ enrolledClasses = <<>>
  /\ notifications = NoFlags
  /\ classToasts = <<>>
  /\ enrollResult = NoResult

\* ------------------------------------------------------------- chat session
\* the contact selections made and the inserts made or requested so far
Ops == selects + Len(store) + Len(sends)

\* useEffect[selectedContact] after setSelectedContact(contact)
\* (contact button onClick, or the ?contact= search parameter):
\* fetchMessages up to its await, then subscribeToMessages; the function
\* subscribeToMessages returns is dropped, so the effect has no cleanup
SelectContact(c) ==
  /\ mounted /\ ~loading
  /\ c \in Range(contacts)
  /\ c # selectedContact
  /\ Ops < MaxOps
  /\ selects' = selects + 1
  /\ selectedAt' = Len(store)
  /\ selectedContact' = c
  /\ fetches' = Append(fetches, [me |-> currentUserId, contact |-> c.id, st |-> "sent", data |-> <<>>])
  /\ channels' = channels \cup {c.id}
  /\ invoked' = "none"
  /\ UNCHANGED <<classVars, storeVars, initVars, store, rtQueue, messages, newMessage, sending,
                 mounted, markReads, sends, uuids, toasts>>

\* the rows the history query of fetchMessages returns, given the order in
\* which the table hands its rows over
HistoryQuery(heap) == OrderByCreatedAt(heap)

\* the server evaluates the history query
ServerFetch(i) ==
  /\ i \in 1..Len(fetches) /\ fetches[i].st = "sent"
  /\ LET f == fetches[i]
         matching == {store[k] : k \in {j \in 1..Len(store) : HistoryFilter(store[j], f.me, f.contact)}}
     IN  \E heap \in Orderings(matching) :
           fetches' = [fetches EXCEPT ![i] = [f EXCEPT !.st = "ok", !.data = HistoryQuery(heap)]]
  /\ invoked' = "none"
  /\ UNCHANGED <<classVars, storeVars, initVars, store, channels, rtQueue, selectedContact, messages,
                 newMessage, sending, mounted, markReads, sends, uuids, selects, selectedAt, toasts>>

\* the rows of a history result the mark-read update is meant for
UnreadOf(data, me) ==
  {data[k].id : k \in {j \in 1..Len(data) : data[j].recipient_id = me /\ ~data[j].read}}

\* fetchMessages drops a response whose contact is no longer the selected one
FetchResolve_DiscardStale(i) ==
  /\ i \in 1..Len(fetches) /\ fetches[i].st = "ok"
  /\ LET f == fetches[i]
         current == mounted /\ f.contact = selectedContact.id
     IN  /\ messages' = IF current THEN f.data ELSE messages
         /\ markReads' = IF current /\ Len(f.data) > 0
                         THEN Append(markReads, [me |-> f.me, contact |-> f.contact, st |-> "sent",
                                                 rows |-> UnreadOf(f.data, f.me)])
                         ELSE markReads
  /\ fetches' = RemoveAt(fetches, i)
  /\ invoked' = "none"
  /\ UNCHANGED <<classVars, storeVars, initVars, store, channels, rtQueue, selectedContact,
                 newMessage, sending, mounted, sends, uuids, selects, selectedAt, toasts>>

\* fetchMessages after its first await, error = null: setMessages, then the
\* mark-read update is sent when the result is not empty
FetchResolve(i) ==
  /\ i \in 1..Len(fetches) /\ fetches[i].st = "ok"
  /\ LET f == fetches[i]
     IN  /\ messages' = IF mounted THEN f.data ELSE messages
         /\ markReads' = IF Len(f.data) > 0
                         THEN Append(markReads, [me |-> f.me, contact |-> f.contact, st |-> "sent",
                                                 rows |-> UnreadOf(f.data, f.me)])
                         ELSE markReads
  /\ fetches' = RemoveAt(fetches, i)
  /\ invoked' = "none"
  /\ UNCHANGED <<classVars, storeVars, initVars, store, channels, rtQueue, selectedContact,
                 newMessage, sending, mounted, sends, uuids, selects, selectedAt, toasts>>

\* the history query fails: fetchMessages logs the error and returns
FetchFail(i) ==
  /\ i \in 1..Len(fetches) /\ fetches[i].st = "sent"
  /\ fetches' = RemoveAt(fetches, i)
  /\ invoked' = "none"
  /\ UNCHANGED <<classVars, storeVars, initVars, store, channels, rtQueue, selectedContact, messages,
                 newMessage, sending, mounted, markReads, sends, uuids, selects, selectedAt, toasts>>

\* the table after the mark-read update of (me, c)
MarkRead(tbl, me, c) ==
  [k \in 1..Len(tbl) |->
     IF MarkReadFilter(tbl[k], me, c) THEN [tbl[k] EXCEPT !.read = TRUE] ELSE tbl[k]]

\* the server applies the mark-read update
ServerMarkRead(i) ==
  /\ i \in 1..Len(markReads) /\ markReads[i].st = "sent"
  /\ store' = MarkRead(store, markReads[i].me, markReads[i].contact)
  /\ markReads' = [markReads EXCEPT ![i].st = "ok"]
  /\ invoked' = "none"
  /\ UNCHANGED <<classVars, storeVars, initVars, channels, rtQueue, selectedContact, messages,
                 newMessage, sending, mounted, fetches, sends, uuids, selects, selectedAt, toasts>>

\* fetchMessages after its second await: it returns
MarkReadResolve(i) ==
  /\ i \in 1..Len(markReads) /\ markReads[i].st = "ok"
  /\ markReads' = RemoveAt(markReads, i)
  /\ invoked' = "none"
  /\ UNCHANGED <<classVars, storeVars, initVars, store, channels, rtQueue, selectedContact, messages,
                 newMessage, sending, mounted, fetches, sends, uuids, selects, selectedAt, toasts>>

\* the update fails; fetchMessages does not look at its result
MarkReadFail(i) ==
  /\ i \in 1..Len(markReads) /\ markReads[i].st = "sent"
  /\ markReads' = RemoveAt(markReads, i)
  /\ invoked' = "none"
  /\ UNCHANGED <<classVars, storeVars, initVars, store, channels, rtQueue, selectedContact, messages,
                 newMessage, sending, mounted, fetches, sends, uuids, selects, selectedAt, toasts>>

\* onChange of the input (rendered for a selected contact, disabled while sending)
SetNewMessage(t) ==
  /\ mounted /\ ~loading
  /\ selectedContact # NullContact
  /\ ~sending
  /\ t \in Texts /\ t # newMessage
  /\ newMessage' = t
  /\ invoked' = "none"
  /\ UNCHANGED <<classVars, storeVars, initVars, store, channels, rtQueue, selectedContact, messages,
                 sending, mounted, fetches, markReads, sends, uuids, selects, selectedAt, toasts>>

\* SendRejected without the test of sending
SendRejected_NoInFlight(text, contact, inFlight) ==
  Trim(text) = <<>> \/ contact = NullContact

\* SendRejected with !newMessage in place of !newMessage.trim()
SendRejected_NoTrim(text, contact, inFlight) ==
  text = <<>> \/ contact = NullContact \/ inFlight

\* the early return of handleSendMessage
SendRejected(text, contact, inFlight) ==
  Trim(text) = <<>> \/ contact = NullContact \/ inFlight

\* handleSendMessage up to its await (onSubmit of the form)
HandleSendMessage ==
  /\ mounted /\ ~loading
  /\ IF SendRejected(newMessage, selectedContact, sending)
     THEN UNCHANGED <<sending, sends>>
     ELSE /\ Ops < MaxOps
          /\ sending' = TRUE
          /\ sends' = Append(sends, [sender_id |-> currentUserId,
                                     recipient_id |-> selectedContact.id,
                                     content |-> Trim(newMessage), st |-> "sent"])
  /\ invoked' = "handleSendMessage"
  /\ UNCHANGED <<classVars, storeVars, initVars, store, channels, rtQueue, selectedContact, messages,
                 newMessage, mounted, fetches, markReads, uuids, selects, selectedAt, toasts>>

\* the server inserts the row and raises the realtime events
ServerInsert(i) ==
  /\ i \in 1..Len(sends) /\ sends[i].st = "sent"
  /\ LET r == sends[i]
         row == NewRow(r.sender_id, r.recipient_id, r.content)
     IN  /\ store' = Append(store, row)
         /\ rtQueue' = rtQueue \o EventsFor(row, channels)
  /\ sends' = [sends EXCEPT ![i].st = "ok"]
  /\ invoked' = "none"
  /\ UNCHANGED <<classVars, storeVars, initVars, channels, selectedContact, messages, newMessage,
                 sending, mounted, fetches, markReads, uuids, selects, selectedAt, toasts>>

\* the optimistic echo: newMsg of handleSendMessage
EchoMessage(r, uuid) ==
  [id |-> uuid, sender_id |-> r.sender_id, recipient_id |-> r.recipient_id,
   content |-> r.content, read |-> FALSE, created_at |-> Len(store)]

\* AppendMessage as [newMsg, ...prev]
AppendMessage_Prepend(prev, msg) == <<msg>> \o prev

\* setMessages((prev) => [...prev, newMsg])
AppendMessage(prev, msg) == Append(prev, msg)

\* handleSendMessage after its await, error = null: echo, clear the input, finally
SendResolve(i) ==
  /\ i \in 1..Len(sends) /\ sends[i].st = "ok"
  /\ uuids' = uuids + 1
  /\ messages' = IF mounted THEN AppendMessage(messages, EchoMessage(sends[i], -(uuids + 1)))
                 ELSE messages
  /\ newMessage' = IF mounted THEN <<>> ELSE newMessage
  /\ sending' = FALSE
  /\ sends' = RemoveAt(sends, i)
  /\ invoked' = "none"
  /\ UNCHANGED <<classVars, storeVars, initVars, store, channels, rtQueue, selectedContact,
                 mounted, fetches, markReads, selects, selectedAt, toasts>>

\* SendFail with setSending(false) at the end of the try block, not in a finally
SendFail_NoFinally(i) ==
  /\ i \in 1..Len(sends) /\ sends[i].st = "sent"
  /\ toasts' = toasts \cup {"Erro ao enviar mensagem"}
  /\ sends' = RemoveAt(sends, i)
  /\ invoked' = "none"
  /\ UNCHANGED <<classVars, storeVars, initVars, store, channels, rtQueue, selectedContact, messages,
                 newMessage, sending, mounted, fetches, markReads, uuids, selects, selectedAt>>

\* the insert fails: handleSendMessage throws into its catch, then finally
SendFail(i) ==
  /\ i \in 1..Len(sends) /\ sends[i].st = "sent"
  /\ toasts' = toasts \cup {"Erro ao enviar mensagem"}
  /\ sending' = FALSE
  /\ sends' = RemoveAt(sends, i)
  /\ invoked' = "none"
  /\ UNCHANGED <<classVars, storeVars, initVars, store, channels, rtQueue, selectedContact, messages,
                 newMessage, mounted, fetches, markReads, uuids, selects, selectedAt>>

\* another client inserts a message
ExternalInsert(s, r) ==
  /\ s \in UserIds \ {Me} /\ r \in UserIds /\ r # s
  /\ Ops < MaxOps
  /\ LET row == NewRow(s, r, OtherText)
     IN  /\ store' = Append(store, row)
         /\ rtQueue' = rtQueue \o EventsFor(row, channels)
  /\ invoked' = "none"
  /\ UNCHANGED <<classVars, storeVars, initVars, channels, selectedContact, messages, newMessage,
                 sending, mounted, fetches, markReads, sends, uuids, selects, selectedAt, toasts>>

\* the callback as setMessages([payload.new])
RealtimeDeliver_Replace ==
  /\ rtQueue # <<>>
  /\ LET ev == Head(rtQueue)
     IN  messages' = IF CallbackAccepts(ev.new, currentUserId) /\ mounted
                     THEN <<ev.new>> ELSE messages
  /\ rtQueue' = Tail(rtQueue)
  /\ invoked' = "none"
  /\ UNCHANGED <<classVars, storeVars, initVars, store, channels, selectedContact, newMessage,
                 sending, mounted, fetches, markReads, sends, uuids, selects, selectedAt, toasts>>

\* the callback of a channel receives an insert event
RealtimeDeliver ==
  /\ rtQueue # <<>>
  /\ LET ev == Head(rtQueue)
     IN  messages' = IF CallbackAccepts(ev.new, currentUserId) /\ mounted
                     THEN AppendMessage(messages, ev.new) ELSE messages
  /\ rtQueue' = Tail(rtQueue)
  /\ invoked' = "none"
  /\ UNCHANGED <<classVars, storeVars, initVars, store, channels, selectedContact, newMessage,
                 sending, mounted, fetches, markReads, sends, uuids, selects, selectedAt, toasts>>

\* navigation away: the component unmounts and its state is dropped; no effect
\* registered a cleanup, and the suspended calls go on
Unmount ==
  /\ mounted /\ ~loading
  /\ mounted' = FALSE
  /\ selectedContact' = NullContact /\ messages' = <<>> /\ newMessage' = <<>>
  /\ sending' = FALSE
  /\ invoked' = "none"
  /\ UNCHANGED <<classVars, storeVars, initVars, store, channels, rtQueue,
                 fetches, markReads, sends, uuids, selects, selectedAt, toasts>>

\* the screen after initializeChat has resolved the contacts of student "me",
\* who has an active enrollment in a class of "a" and in a class of "b"
Init ==
  /\ authUser = Me
  /\ studentsTbl = {Me}
  /\ professionalsTbl = {"a", "b"}
  /\ classesTbl = [k \in ClassIds |-> IF k = "k1" THEN "a" ELSE "b"]
  /\ enrollmentsTbl = {[student_id |-> Me, class_id |-> k, status |-> "active"] : k \in ClassIds}
  /\ store = <<>> /\ channels = {} /\ rtQueue = <<>>
  /\ currentUserId = Me /\ userType = "student"
  /\ contacts = <<Contact("a", "professional"), Contact("b", "professional")>>
  /\ selectedContact = NullContact
  /\ messages = <<>> /\ newMessage = <<>>
  /\ loading = FALSE /\ sending = FALSE /\ mounted = TRUE
  /\ pc = "done" /\ studentData = TRUE /\ professionalData = FALSE /\ ids = <<>>
  /\ fetches = <<>> /\ markReads = <<>> /\ sends = <<>> /\ uuids = 0 /\ selects = 0 /\ selectedAt = 0
  /\ toasts = {} /\ errorLogged = FALSE
  /\ invoked = "none"
  /\ ClassesInitial /\ pcClasses = "off"

Next ==
  \/ \E c \in Range(contacts) : SelectContact(c)
  \/ \E i \in DOMAIN fetches : ServerFetch(i)
  \/ \E i \in DOMAIN fetches : FetchResolve(i)
  \/ \E i \in DOMAIN fetches : FetchFail(i)
  \/ \E i \in DOMAIN markReads : ServerMarkRead(i)
  \/ \E i \in DOMAIN markReads : MarkReadResolve(i)
  \/ \E i \in DOMAIN markReads : MarkReadFail(i)
  \/ \E t \in Texts : SetNewMessage(t)
  \/ HandleSendMessage
  \/ \E i \in DOMAIN sends : ServerInsert(i)
  \/ \E i \in DOMAIN sends : SendResolve(i)
  \/ \E i \in DOMAIN sends : SendFail(i)
  \/ \E s, r \in UserIds : ExternalInsert(s, r)
  \/ RealtimeDeliver
  \/ Unmount

Spec == Init /\ [][Next]_vars

\* ------------------------------------------------- contact resolution
\* the rows of a table, in the order the table returns them
RECURSIVE RowsOf(_)
RowsOf(S) ==
  IF S = {} THEN <<>>
  ELSE LET x == CHOOSE y \in S : TRUE IN <<x>> \o RowsOf(S \ {x})

\* [...new Set(list)]
RECURSIVE Dedupe(_)
Dedupe(s) ==
  IF s = <<>> THEN <<>>
  ELSE LET rest == Dedupe(SubSeq(s, 1, Len(s) - 1))
       IN  IF s[Len(s)] \in Range(rest) THEN rest ELSE Append(rest, s[Len(s)])

\* StudentEnrollFilter without .eq("status", "active")
StudentEnrollFilter_AnyStatus(e, userId) == e.student_id = userId

\* .from("enrollments").eq("student_id", userId).eq("status", "active")
StudentEnrollFilter(e, userId) == e.student_id = userId /\ e.status = "active"

\* ClassEnrollFilter without .eq("status", "active")
ClassEnrollFilter_AnyStatus(e, classIds) == e.class_id \in Range(classIds)

\* .from("enrollments").in("class_id", classIds).eq("status", "active")
ClassEnrollFilter(e, classIds) == e.class_id \in Range(classIds) /\ e.status = "active"

\* the finally of initializeChat
Finish ==
  /\ loading' = FALSE
  /\ pc' = "done"

\* the catch of a resolver, then the finally of initializeChat
ResolverCatch ==
  /\ errorLogged' = TRUE
  /\ contacts' = <<>>
  /\ Finish

\* initializeChat: supabase.auth.getUser() resolves
GetUser ==
  /\ pc = "getUser"
  /\ IF authUser = "null"
     THEN /\ toasts' = toasts \cup {"Erro ao inicializar chat"}
          /\ Finish
          /\ UNCHANGED currentUserId
     ELSE /\ currentUserId' = authUser
          /\ pc' = "students"
          /\ UNCHANGED <<toasts, loading>>
  /\ UNCHANGED <<classVars, storeVars, chatVars, userType, contacts, studentData, professionalData,
                 ids, errorLogged, invoked>>

\* initializeChat: the "students" lookup resolves; found is its data, null
\* when the identity has no student row or the lookup failed
StudentLookup(found) ==
  /\ pc = "students"
  /\ studentData' = found
  /\ pc' = "professionals"
  /\ UNCHANGED <<classVars, storeVars, chatVars, currentUserId, userType, contacts, loading,
                 professionalData, ids, errorLogged, toasts, invoked>>

\* initializeChat: the "professionals" lookup resolves, and the role is chosen;
\* each resolver runs up to its first await
ProfessionalLookup(found) ==
  /\ pc = "professionals"
  /\ professionalData' = found
  /\ IF studentData
     THEN /\ userType' = "student"
          /\ pc' = "s_enrollments"
          /\ UNCHANGED loading
     ELSE IF found
     THEN /\ userType' = "professional"
          /\ pc' = "p_classes"
          /\ UNCHANGED loading
     ELSE /\ Finish
          /\ UNCHANGED userType
  /\ UNCHANGED <<classVars, storeVars, chatVars, currentUserId, contacts, studentData, ids,
                 errorLogged, toasts, invoked>>

\* fetchStudentContacts: the enrollments of the student
StudentEnrollments ==
  /\ pc = "s_enrollments"
  /\ LET enrollments == RowsOf({e \in enrollmentsTbl : StudentEnrollFilter(e, currentUserId)})
     IN  IF Len(enrollments) = 0
         THEN /\ contacts' = <<>>
              /\ Finish
              /\ UNCHANGED ids
         ELSE /\ ids' = [i \in 1..Len(enrollments) |-> enrollments[i].class_id]
              /\ pc' = "s_classes"
              /\ UNCHANGED <<contacts, loading>>
  /\ UNCHANGED <<classVars, storeVars, chatVars, currentUserId, userType, studentData, professionalData,
                 errorLogged, toasts, invoked>>

\* fetchStudentContacts: the classes of those enrollments, then professionalIds
StudentClasses ==
  /\ pc = "s_classes"
  /\ LET classes == RowsOf({k \in ClassIds : k \in Range(ids)})
         professionalIds == Dedupe([i \in 1..Len(classes) |-> classesTbl[classes[i]]])
     IN  IF Len(professionalIds) = 0
         THEN /\ contacts' = <<>>
              /\ Finish
              /\ UNCHANGED ids
         ELSE /\ ids' = professionalIds
              /\ pc' = "s_professionals"
              /\ UNCHANGED <<contacts, loading>>
  /\ UNCHANGED <<classVars, storeVars, chatVars, currentUserId, userType, studentData, professionalData,
                 errorLogged, toasts, invoked>>

\* fetchStudentContacts: the profiles of those professionals, then setContacts
StudentProfessionals ==
  /\ pc = "s_professionals"
  /\ LET professionals == RowsOf({u \in professionalsTbl : u \in Range(ids)})
     IN  contacts' = [i \in 1..Len(professionals) |-> Contact(professionals[i], "professional")]
  /\ Finish
  /\ UNCHANGED <<classVars, storeVars, chatVars, currentUserId, userType, studentData, professionalData,
                 ids, errorLogged, toasts, invoked>>

\* fetchProfessionalContacts: the classes the professional owns
ProfessionalClasses ==
  /\ pc = "p_classes"
  /\ LET classes == RowsOf({k \in ClassIds : classesTbl[k] = currentUserId})
     IN  IF Len(classes) = 0
         THEN /\ contacts' = <<>>
              /\ Finish
              /\ UNCHANGED ids
         ELSE /\ ids' = classes
              /\ pc' = "p_enrollments"
              /\ UNCHANGED <<contacts, loading>>
  /\ UNCHANGED <<classVars, storeVars, chatVars, currentUserId, userType, studentData, professionalData,
                 errorLogged, toasts, invoked>>

\* fetchProfessionalContacts: the active enrollments on those classes, then studentIds
ProfessionalEnrollments ==
  /\ pc = "p_enrollments"
  /\ LET enrollments == RowsOf({e \in enrollmentsTbl : ClassEnrollFilter(e, ids)})
         studentIds == Dedupe([i \in 1..Len(enrollments) |-> enrollments[i].student_id])
     IN  IF Len(studentIds) = 0
         THEN /\ contacts' = <<>>
              /\ Finish
              /\ UNCHANGED ids
         ELSE /\ ids' = studentIds
              /\ pc' = "p_students"
              /\ UNCHANGED <<contacts, loading>>
  /\ UNCHANGED <<classVars, storeVars, chatVars, currentUserId, userType, studentData, professionalData,
                 errorLogged, toasts, invoked>>

\* fetchProfessionalContacts: the profiles of those students, then setContacts
ProfessionalStudents ==
  /\ pc = "p_students"
  /\ LET students == RowsOf({u \in studentsTbl : u \in Range(ids)})
     IN  contacts' = [i \in 1..Len(students) |-> Contact(students[i], "student")]
  /\ Finish
  /\ UNCHANGED <<classVars, storeVars, chatVars, currentUserId, userType, studentData, professionalData,
                 ids, errorLogged, toasts, invoked>>

ResolverSteps == {"s_enrollments", "s_classes", "s_professionals",
                  "p_classes", "p_enrollments", "p_students"}

\* the error leaves the resolver and reaches the catch of initializeChat
LookupError_Propagates ==
  /\ pc \in ResolverSteps
  /\ errorLogged' = TRUE
  /\ toasts' = toasts \cup {"Erro ao inicializar chat"}
  /\ Finish
  /\ UNCHANGED <<classVars, storeVars, chatVars, currentUserId, userType, contacts, studentData,
                 professionalData, ids, invoked>>

\* a lookup of a resolver comes back with an error: throw, catch, return
LookupError ==
  /\ pc \in ResolverSteps
  /\ ResolverCatch
  /\ UNCHANGED <<classVars, storeVars, chatVars, currentUserId, userType, studentData, professionalData,
                 ids, toasts, invoked>>

Enrollments == [student_id : UserIds, class_id : ClassIds, status : Statuses]

\* the screen at its mount, over every backing data within the bounds
InitContacts ==
  /\ authUser \in {Me, "null"}
  /\ studentsTbl \in SUBSET UserIds
  /\ professionalsTbl \in SUBSET UserIds
  /\ classesTbl \in [ClassIds -> UserIds]
  /\ enrollmentsTbl \in {E \in SUBSET Enrollments : Cardinality(E) <= MaxEnroll}
  /\ store = <<>> /\ channels = {} /\ rtQueue = <<>>
  /\ currentUserId = "" /\ userType = "null"
  /\ contacts = <<>>
  /\ selectedContact = NullContact
  /\ messages = <<>> /\ newMessage = <<>>
  /\ loading = TRUE /\ sending = FALSE /\ mounted = TRUE
  /\ pc = "getUser" /\ studentData = FALSE /\ professionalData = FALSE /\ ids = <<>>
  /\ fetches = <<>> /\ markReads = <<>> /\ sends = <<>> /\ uuids = 0 /\ selects = 0 /\ selectedAt = 0
  /\ toasts = {} /\ errorLogged = FALSE
  /\ invoked = "none"
  /\ ClassesInitial /\ pcClasses = "off"

NextContacts ==
  \/ GetUser
  \/ StudentLookup(currentUserId \in studentsTbl)
  \/ StudentLookup(FALSE)
  \/ ProfessionalLookup(currentUserId \in professionalsTbl)
  \/ ProfessionalLookup(FALSE)
  \/ StudentEnrollments
  \/ StudentClasses
  \/ StudentProfessionals
  \/ ProfessionalClasses
  \/ ProfessionalEnrollments
  \/ ProfessionalStudents
  \/ LookupError

SpecContacts == InitContacts /\ [][NextContacts]_vars

\* ------------------------------------------------- MyClasses: operations
\* error.message of a failed enrollments query
QueryErrors == {"Failed to fetch", "permission denied for table enrollments"}

\* new Error("Usuário não autenticado").message
NotAuthenticated == "Usuário não autenticado"

\* .eq("student_id", user.id).eq("status", "active")
EnrolledFilter(e, user) == e.student_id = user /\ e.status = "active"

\* enrollments?.map((e) => ({ enrollmentId: e.id, ...e.classes })) || [];
\* an enrollment row stands for its own id
ClassesData(data) ==
  [k \in 1..Len(data) |-> [enrollmentId |-> data[k], id |-> data[k].class_id]]

\* notifState[cls.id] = true for each class of classesData
NotifState(classesData) ==
  [c \in {classesData[k].id : k \in 1..Len(classesData)} |-> TRUE]

\* the toast of the catch of fetchEnrolledClasses; cls and before are not
\* shown: they record the switch a toast answers and the flag it found
LoadErrorToast(msg) ==
  [title |-> "Erro ao carregar turmas", description |-> msg, cls |-> "none", before |-> FALSE]

\* the toast of toggleNotifications for the new value of the flag
ToggleToast(classId, prevValue, newValue) ==
  [title |-> IF newValue THEN "Notificações ativadas" ELSE "Notificações desativadas",
   description |-> IF newValue THEN "Você receberá avisos desta turma"
                   ELSE "Você não receberá mais avisos desta turma",
   cls |-> classId, before |-> prevValue]

\* prev[classId] of a Record<string, boolean>: undefined reads as false
FlagOf(prev, classId) == IF classId \in DOMAIN prev THEN prev[classId] ELSE FALSE

\* NewState as { ...prev, [classId]: true }
NewState_SetTrue(prev, classId) ==
  [c \in DOMAIN prev \cup {classId} |-> IF c = classId THEN TRUE ELSE prev[c]]

\* NewState negating every flag of prev
NewState_FlipAll(prev, classId) ==
  [c \in DOMAIN prev \cup {classId} |-> ~FlagOf(prev, c)]

\* const newState = { ...prev, [classId]: !prev[classId] }
NewState(prev, classId) ==
  [c \in DOMAIN prev \cup {classId} |-> IF c = classId THEN ~FlagOf(prev, c) ELSE prev[c]]

\* the finally of fetchEnrolledClasses
ClassesFinally ==
  /\ loadingClasses' = FALSE
  /\ pcClasses' = "done"

\* the catch of fetchEnrolledClasses
ClassesCatch(msg) ==
  /\ classToasts' = Append(classToasts, LoadErrorToast(msg))
  /\ UNCHANGED <<enrolledClasses, notifications>>

\* fetchEnrolledClasses: supabase.auth.getUser() resolves
ClassesGetUser ==
  /\ pcClasses = "getUser"
  /\ IF authUser = "null"
     THEN /\ ClassesCatch(NotAuthenticated)
          /\ ClassesFinally
     ELSE /\ pcClasses' = "enrollments"
          /\ UNCHANGED <<loadingClasses, enrolledClasses, notifications, classToasts>>
  /\ UNCHANGED <<storeVars, initVars, chatVars, toasts, invoked, enrollResult>>

\* the server answers the enrollments query with the rows of the user's
\* active enrollments, in the order the table hands them over
EnrollmentsQuery ==
  /\ pcClasses = "enrollments"
  /\ \E heap \in Orderings({e \in enrollmentsTbl : EnrolledFilter(e, authUser)}) :
       enrollResult' = [data |-> heap, error |-> "null"]
  /\ pcClasses' = "answered"
  /\ UNCHANGED <<storeVars, initVars, chatVars, toasts, invoked, loadingClasses,
                 enrolledClasses, notifications, classToasts>>

\* the enrollments query fails: data is null, error carries the message
EnrollmentsQueryError(msg) ==
  /\ pcClasses = "enrollments"
  /\ enrollResult' = [data |-> <<>>, error |-> msg]
  /\ pcClasses' = "answered"
  /\ UNCHANGED <<storeVars, initVars, chatVars, toasts, invoked, loadingClasses,
                 enrolledClasses, notifications, classToasts>>

\* FetchEnrolledClassesResolve with setLoading(false) as the last statement of
\* the try block
FetchEnrolledClassesResolve_NoFinally ==
  /\ pcClasses = "answered"
  /\ pcClasses' = "done"
  /\ IF enrollResult.error # "null"
     THEN /\ ClassesCatch(enrollResult.error)
          /\ UNCHANGED loadingClasses
     ELSE /\ enrolledClasses' = ClassesData(enrollResult.data)
          /\ notifications' = NotifState(ClassesData(enrollResult.data))
          /\ loadingClasses' = FALSE
          /\ UNCHANGED classToasts
  /\ UNCHANGED <<storeVars, initVars, chatVars, toasts, invoked, enrollResult>>

\* fetchEnrolledClasses after the await of the enrollments query
FetchEnrolledClassesResolve ==
  /\ pcClasses = "answered"
  /\ IF enrollResult.error # "null"
     THEN ClassesCatch(enrollResult.error)
     ELSE /\ enrolledClasses' = ClassesData(enrollResult.data)
          /\ notifications' = NotifState(ClassesData(enrollResult.data))
          /\ UNCHANGED classToasts
  /\ ClassesFinally
  /\ UNCHANGED <<storeVars, initVars, chatVars, toasts, invoked, enrollResult>>

\* the Switch of a class card: onCheckedChange -> toggleNotifications(classItem.id)
ToggleNotifications(classId) ==
  /\ pcClasses = "done" /\ ~loadingClasses
  /\ \E k \in 1..Len(enrolledClasses) : enrolledClasses[k].id = classId
  /\ Len(classToasts) < MaxToggles
  /\ notifications' = NewState(notifications, classId)
  /\ classToasts' = Append(classToasts,
                           ToggleToast(classId, FlagOf(notifications, classId),
                                       NewState(notifications, classId)[classId]))
  /\ UNCHANGED <<storeVars, initVars, chatVars, toasts, invoked, loadingClasses,
                 enrolledClasses, pcClasses, enrollResult>>

\* the classes screen at its mount, over every enrollments table within the
\* bounds; the chat screen is not mounted
InitClasses ==
  /\ authUser \in {Me, "null"}
  /\ studentsTbl = {Me}
  /\ professionalsTbl = {"a", "b"}
  /\ classesTbl = [c \in ClassIds |-> IF c = "k1" THEN "a" ELSE "b"]
  /\ enrollmentsTbl \in {E \in SUBSET Enrollments : Cardinality(E) <= MaxEnroll}
  /\ store = <<>> /\ channels = {} /\ rtQueue = <<>>
  /\ currentUserId = "" /\ userType = "null"
  /\ contacts = <<>>
  /\ selectedContact = NullContact
  /\ messages = <<>> /\ newMessage = <<>>
  /\ loading = TRUE /\ sending = FALSE /\ mounted = FALSE
  /\ pc = "off" /\ studentData = FALSE /\ professionalData = FALSE /\ ids = <<>>
  /\ fetches = <<>> /\ markReads = <<>> /\ sends = <<>> /\ uuids = 0 /\ selects = 0 /\ selectedAt = 0
  /\ toasts = {} /\ errorLogged = FALSE
  /\ invoked = "none"
  /\ ClassesInitial /\ pcClasses = "getUser"

NextClasses ==
  \/ ClassesGetUser
  \/ EnrollmentsQuery
  \/ \E msg \in QueryErrors : EnrollmentsQueryError(msg)
  \/ FetchEnrolledClassesResolve
  \/ \E classId \in ClassIds : ToggleNotifications(classId)

SpecClasses == InitClasses /\ [][NextClasses]_vars

\* every awaited call of fetchEnrolledClasses is answered, and its
\* continuation then runs
SpecClassesFair ==
  /\ SpecClasses
  /\ WF_vars(ClassesGetUser)
  /\ WF_vars(EnrollmentsQuery \/ \E msg \in QueryErrors : EnrollmentsQueryError(msg))
  /\ WF_vars(FetchEnrolledClassesResolve)

\* ------------------------------------------------------------- properties
ErrorToast == "Erro ao enviar mensagem"

\* C1: at most one realtime channel is open, it is the channel of the selected
\* contact, and none is open once the screen is torn down.
C1_SingleChannelOfSelected ==
  /\ Cardinality(channels) <= 1
  /\ (mounted => channels \subseteq {selectedContact.id})
  /\ (~mounted => channels = {})

\* C2: a message a realtime insert event appends to the list is addressed to
\* the current identity and sent by the contact selected at that moment.
C2_RealtimeAppendFromSelected ==
  [][(rtQueue # <<>> /\ rtQueue' = Tail(rtQueue) /\ messages' # messages)
       => /\ Head(rtQueue).new.recipient_id = currentUserId
          /\ Head(rtQueue).new.sender_id = selectedContact.id]_vars

\* C3: while the persist call of a send is unresolved, another invocation of
\* handleSendMessage changes nothing; so at most one persist call is in flight,
\* and every row the user inserted has exactly one echo, made or still to come.
C3_SecondSendIgnored ==
  /\ [](Len(sends) <= 1)
  /\ [](Cardinality({k \in DOMAIN store : store[k].sender_id = Me})
          = uuids + Cardinality({i \in DOMAIN sends : sends[i].st = "ok"}))
  /\ [][(invoked' = "handleSendMessage" /\ sends # <<>>)
          => UNCHANGED <<store, sends, messages, newMessage, sending, uuids>>]_vars

\* the second invocation came while the row was inserted and the echo not yet made
W3_SecondInvocationInFlight ==
  /\ invoked = "handleSendMessage"
  /\ Len(sends) = 1 /\ sends[1].st = "ok"
  /\ sending

\* data is the rows of tbl between me and c, each once, oldest first
IsHistoryOf(data, tbl, me, c) ==
  /\ \A k \in DOMAIN data :
       /\ \E j \in DOMAIN tbl : tbl[j] = data[k]
       /\ \/ (data[k].sender_id = me /\ data[k].recipient_id = c)
          \/ (data[k].sender_id = c /\ data[k].recipient_id = me)
  /\ \A j \in DOMAIN tbl :
       (\/ (tbl[j].sender_id = me /\ tbl[j].recipient_id = c)
        \/ (tbl[j].sender_id = c /\ tbl[j].recipient_id = me))
       => Cardinality({k \in DOMAIN data : data[k] = tbl[j]}) = 1
  /\ \A k \in DOMAIN data : \A l \in DOMAIN data :
       k < l => data[k].created_at <= data[l].created_at

\* C4: the result of the history query for contact c is exactly the stored
\* messages between the current identity and c, in ascending creation time,
\* and a successful load sets the in-memory list to that result.
C4_HistoryLoad ==
  [][\A i \in DOMAIN fetches :
       /\ (fetches[i].st = "sent" /\ Len(fetches') = Len(fetches) /\ fetches'[i].st = "ok")
            => IsHistoryOf(fetches'[i].data, store, currentUserId, fetches[i].contact)
       /\ (fetches[i].st = "ok" /\ fetches' = RemoveAt(fetches, i) /\ mounted)
            => messages' = fetches[i].data]_vars

\* a load showed a conversation of two rows, the older one from the contact
W4_TwoRowHistoryLoaded ==
  /\ Len(messages) = 2
  /\ messages[1].sender_id = selectedContact.id /\ messages[1].recipient_id = Me
  /\ messages[2].sender_id = Me /\ messages[2].id > 0

\* C5: once the mark-read update of a history load has been applied, every
\* message of that load that was addressed to the current identity and unread
\* is read in the backing store.
C5_LoadedUnreadMarkedRead ==
  \A i \in DOMAIN markReads :
    markReads[i].st = "ok" => \A id \in markReads[i].rows : store[id].read

W5_UnreadMarked ==
  \E i \in DOMAIN markReads : markReads[i].st = "ok" /\ markReads[i].rows # {}

\* C6: a send whose persist call succeeds appends exactly one entry after all
\* the entries of the list: the trimmed text, from the current identity to the
\* contact the send was made for, unread; and the input text is cleared.
C6_EchoAppended ==
  [][\A i \in DOMAIN sends :
       (sends[i].st = "ok" /\ sends' = RemoveAt(sends, i) /\ mounted)
       => /\ Len(messages') = Len(messages) + 1
          /\ SubSeq(messages', 1, Len(messages)) = messages
          /\ messages'[Len(messages')].content = Trim(newMessage)
          /\ messages'[Len(messages')].sender_id = currentUserId
          /\ messages'[Len(messages')].recipient_id = sends[i].recipient_id
          /\ messages'[Len(messages')].read = FALSE
          /\ newMessage' = <<>>]_vars

\* the echo of a padded text stands after a loaded history row
W6_EchoAfterHistory ==
  /\ Len(messages) = 2
  /\ messages[1].id > 0
  /\ messages[2].id < 0 /\ messages[2].content = <<"h">>
  /\ messages[2].recipient_id = selectedContact.id
  /\ newMessage = <<>> /\ ~sending

\* C7: when the persist call of a send fails, an error notification is shown,
\* the list and the input text stay as they are, and the in-flight guard is
\* released, so that the handler accepts the next send.
C7_SendFailure ==
  [][\A i \in DOMAIN sends :
       (sends[i].st = "sent" /\ sends' = RemoveAt(sends, i) /\ mounted)
       => /\ ErrorToast \in toasts'
          /\ messages' = messages
          /\ newMessage' = newMessage
          /\ ~sending'
          /\ Trim(newMessage') # <<>> /\ selectedContact' # NullContact]_vars

\* a send was accepted after a failed one
W7_SendAfterFailure ==
  /\ ErrorToast \in toasts
  /\ invoked = "handleSendMessage"
  /\ sending /\ Len(sends) = 1 /\ sends[1].st = "sent"

\* C8: handleSendMessage invoked with an empty or whitespace-only text, or with
\* no contact selected, issues no insert and leaves the list, the input text
\* and the in-flight flag as they are.
C8_BlankSendIsNoOp ==
  [][(invoked' = "handleSendMessage" /\ (Trim(newMessage) = <<>> \/ selectedContact = NullContact))
       => UNCHANGED <<store, sends, messages, newMessage, sending>>]_vars

\* the handler ran on a whitespace-only text for a selected contact
W8_WhitespaceSubmitted ==
  /\ invoked = "handleSendMessage"
  /\ newMessage = <<" ", " ">>
  /\ selectedContact # NullContact
  /\ sends = <<>> /\ ~sending

\* the professionals that own a class in which user u has an active enrollment
ProfessionalsOf(u) ==
  {p \in professionalsTbl :
     \E k \in ClassIds :
       /\ classesTbl[k] = p
       /\ [student_id |-> u, class_id |-> k, status |-> "active"] \in enrollmentsTbl}

\* the students that have an active enrollment in a class user u owns
StudentsOf(u) ==
  {t \in studentsTbl :
     \E k \in ClassIds :
       /\ classesTbl[k] = u
       /\ [student_id |-> t, class_id |-> k, status |-> "active"] \in enrollmentsTbl}

\* C9: for a student, when no lookup fails, the contacts are exactly the profiles
\* of the professionals owning a class in which the student has an active
\* enrollment, each once and tagged "professional".
C9_StudentContacts ==
  (pc = "done" /\ userType = "student" /\ ~errorLogged)
  => /\ Range(contacts) = {[id |-> p, name |-> FullName(p), type |-> "professional",
                            avatar_url |-> "null"] : p \in ProfessionalsOf(currentUserId)}
     /\ Len(contacts) = Cardinality(ProfessionalsOf(currentUserId))

\* one contact, and a professional the student is linked to only by a
\* cancelled enrollment is left out
W9_CancelledLeftOut ==
  /\ pc = "done" /\ userType = "student" /\ ~errorLogged
  /\ Len(contacts) = 1
  /\ \E e \in enrollmentsTbl :
       /\ e.student_id = currentUserId /\ e.status = "cancelled"
       /\ classesTbl[e.class_id] \in professionalsTbl
       /\ classesTbl[e.class_id] # contacts[1].id

\* C10: for a professional, when no lookup fails, the contacts are exactly the
\* profiles of the students with an active enrollment in a class the
\* professional owns, each once and tagged "student"; none when there is no
\* such class or enrollment.
C10_ProfessionalContacts ==
  (pc = "done" /\ userType = "professional" /\ ~errorLogged)
  => /\ Range(contacts) = {[id |-> t, name |-> FullName(t), type |-> "student",
                            avatar_url |-> "null"] : t \in StudentsOf(currentUserId)}
     /\ Len(contacts) = Cardinality(StudentsOf(currentUserId))

\* one contact for a student enrolled in two classes of the professional
W10_StudentOfTwoClasses ==
  /\ pc = "done" /\ userType = "professional" /\ ~errorLogged
  /\ Len(contacts) = 1
  /\ Cardinality({e \in enrollmentsTbl :
                    /\ e.status = "active" /\ e.student_id = contacts[1].id
                    /\ classesTbl[e.class_id] = currentUserId}) = 2

\* C11: when a lookup of a resolver's chain fails, in either branch, the
\* contact list ends empty, the error does not leave the resolver (the
\* notification of initializeChat's catch is not shown, nor any other), and
\* the screen has left its loading state.
C11_ResolverFailureIsSilent ==
  errorLogged =>
    /\ pc = "done"
    /\ contacts = <<>>
    /\ toasts = {}
    /\ ~loading

\* the second lookup of a chain failed: the first had returned ids
W11_SecondLookupFailed ==
  /\ errorLogged
  /\ pc = "done"
  /\ ids # <<>>
  /\ ~loading

\* initializeChat is past its role test, for an authenticated identity
RoleChosen == pc \notin {"getUser", "students", "professionals"} /\ currentUserId # ""

\* C12: the role follows the profiles the identity has: student when
\* it has a student profile (also with a professional one), professional when
\* it has only a professional one, and with neither the list is empty, the
\* role null and nothing is notified.
C12_RoleFollowsProfiles ==
  RoleChosen =>
    /\ currentUserId \in studentsTbl => userType = "student"
    /\ (currentUserId \notin studentsTbl /\ currentUserId \in professionalsTbl)
         => userType = "professional"
    /\ (currentUserId \notin studentsTbl /\ currentUserId \notin professionalsTbl)
         => (userType = "null" /\ contacts = <<>> /\ toasts = {})

\* the session is Idle: no contact is selected
Idle == selectedContact = NullContact

\* a history fetch for the selected contact is in flight
Loading ==
  /\ ~Idle
  /\ \E i \in DOMAIN fetches : fetches[i].contact = selectedContact.id

\* a successful history response i is handed to fetchMessages in this step
HistoryResolves(i) ==
  /\ fetches[i].st = "ok"
  /\ fetches' = RemoveAt(fetches, i)
  /\ mounted

\* C13: selecting a contact starts its history fetch (Loading),
\* every history fetch that resolves leaves the list holding entries of the
\* selected contact's conversation only, and a session with a contact never
\* goes back to Idle except by teardown.
C13_SessionStates ==
  [][/\ (selects' = selects + 1 => Loading')
     /\ \A i \in DOMAIN fetches :
          HistoryResolves(i) =>
            \A k \in DOMAIN messages' :
              HistoryFilter(messages'[k], currentUserId, selectedContact.id)
     /\ ((~Idle /\ Idle') => (mounted /\ ~mounted'))]_vars

\* C17: a change of contact neither cancels nor discards the history fetch of
\* the previous contact: the fetches in flight stay in flight when another
\* contact is selected, and the response of a fetch issued for a contact that
\* is no longer the selected one still replaces the list, so that after
\* select A, select B, B's response, A's response the list holds A's history
\* while B is selected.
C17_StaleFetchLands ==
  [][/\ (selects' = selects + 1 =>
          \A i \in DOMAIN fetches : i \in DOMAIN fetches' /\ fetches'[i] = fetches[i])
     /\ \A i \in DOMAIN fetches :
          (HistoryResolves(i) /\ fetches[i].contact # selectedContact.id)
            => (messages' = fetches[i].data /\ selectedContact' = selectedContact)]_vars

\* b is selected, no fetch is in flight, and the list is the history of a:
\* the stored row of a message to a that was inserted after b was selected
W17_ListOfPreviousContact ==
  /\ mounted
  /\ selectedContact.id = "b"
  /\ selects = 2
  /\ fetches = <<>>
  /\ Len(messages) = 1
  /\ messages[1].id > selectedAt
  /\ messages[1].sender_id = Me /\ messages[1].recipient_id = "a"

\* C18: while a contact is selected and no history fetch is in flight, the
\* echo of a send and the insert event of a message from the selected contact
\* are each appended after the entries the list holds, in whichever order
\* they come: every entry that was in the list stays, at its place, so both
\* are in the list afterwards.
C18_AppendsInEitherOrder ==
  [][(mounted /\ mounted' /\ ~Idle /\ fetches = <<>>) =>
       /\ Len(messages') >= Len(messages)
       /\ SubSeq(messages', 1, Len(messages)) = messages
       /\ \A i \in DOMAIN sends :
            (sends[i].st = "ok" /\ sends' = RemoveAt(sends, i)) =>
              /\ Len(messages') = Len(messages) + 1
              /\ messages'[Len(messages')].id < 0
              /\ messages'[Len(messages')].content = sends[i].content
       /\ (/\ rtQueue # <<>> /\ rtQueue' = Tail(rtQueue)
           /\ Head(rtQueue).new.sender_id = selectedContact.id
           /\ Head(rtQueue).new.recipient_id = currentUserId)
            => messages' = Append(messages, Head(rtQueue).new)]_vars

\* after the one fetch of the session came back empty, the echo of a send and
\* then the message of the selected contact were appended
W18_EchoThenRealtime ==
  /\ mounted /\ selects = 1
  /\ fetches = <<>> /\ sends = <<>> /\ rtQueue = <<>>
  /\ Len(messages) = 2
  /\ messages[1].id < 0 /\ messages[1].recipient_id = selectedContact.id
  /\ messages[2].id > 0
  /\ messages[2].sender_id = selectedContact.id /\ messages[2].recipient_id = Me

\* the stored rows the current identity sent, by position in the table
OwnRows == {j \in DOMAIN store : store[j].sender_id = currentUserId}

\* the stored row a list entry stands for: a history row or a realtime row is
\* the stored row of its id; the n-th echo (id -n) is made after the n-th
\* insert of handleSendMessage succeeded, so it stands for the n-th own row
RowOf(m) ==
  IF m.id > 0 THEN m.id
  ELSE store[CHOOSE j \in OwnRows : Cardinality({k \in OwnRows : k <= j}) = -m.id].id

\* C19: no stored message is in the list more than once, under every
\* interleaving of fetch responses, realtime events and send echoes: not as
\* echo and history row, not as history row and realtime append.
C19_NoMessageTwice ==
  \A k \in DOMAIN messages : \A l \in DOMAIN messages :
    k # l => RowOf(messages[k]) # RowOf(messages[l])

\* nothing is on its way to the list: no fetch, no insert event, no send
Quiet == fetches = <<>> /\ rtQueue = <<>> /\ sends = <<>>

\* C20: once every fetch and every realtime delivery has completed, the list
\* holds every message the selected contact sent to the current identity
\* after it was selected and every message the current identity sent to it:
\* a history response that comes after a realtime append or an echo does not
\* drop that entry.
C20_NothingMissing ==
  (mounted /\ ~Idle /\ Quiet) =>
    \A j \in DOMAIN store :
      (\/ /\ store[j].sender_id = selectedContact.id
          /\ store[j].recipient_id = currentUserId
          /\ j > selectedAt
       \/ /\ store[j].sender_id = currentUserId
          /\ store[j].recipient_id = selectedContact.id)
      => \E k \in DOMAIN messages : RowOf(messages[k]) = store[j].id

\* the toasts of toggleNotifications, by position in classToasts
ToggleAt == {k \in DOMAIN classToasts : classToasts[k].cls # "none"}

\* the later toggles of the class toggle k was made for
LaterOf(k) == {l \in ToggleAt : l > k /\ classToasts[l].cls = classToasts[k].cls}

\* the next toggle of the same class after toggle k
NextOf(k) == CHOOSE l \in LaterOf(k) : \A m \in LaterOf(k) : l <= m

\* the flag of its class after toggle k: what the next toggle of that class
\* found, or the flag now
FlagAfter(k) ==
  IF LaterOf(k) = {} THEN notifications[classToasts[k].cls]
  ELSE classToasts[NextOf(k)].before

\* C14: the message of every toggle tells the new value of the flag, and of
\* two toggles in a row of one class the second leaves the flag at the value
\* the first found and shows the opposite message.
C14_DoubleToggle ==
  \A k \in ToggleAt :
    /\ FlagAfter(k) = ~classToasts[k].before
    /\ classToasts[k].title =
         (IF FlagAfter(k) THEN "Notificações ativadas" ELSE "Notificações desativadas")
    /\ classToasts[k].description =
         (IF FlagAfter(k) THEN "Você receberá avisos desta turma"
          ELSE "Você não receberá mais avisos desta turma")
    /\ LaterOf(k) # {} =>
         /\ FlagAfter(NextOf(k)) = classToasts[k].before
         /\ classToasts[NextOf(k)].title # classToasts[k].title
         /\ classToasts[NextOf(k)].description # classToasts[k].description

\* one switch was used twice: the flag is back at true, after "desativadas"
\* and then "ativadas"
W14_ToggledTwice ==
  /\ Len(classToasts) = 2
  /\ classToasts[1].cls = "k1" /\ classToasts[2].cls = "k1"
  /\ classToasts[1].title = "Notificações desativadas"
  /\ classToasts[2].title = "Notificações ativadas"
  /\ notifications["k1"] = TRUE

\* this step is a use of the switch of class c
Toggles(c) ==
  /\ pcClasses = "done"
  /\ Len(classToasts') = Len(classToasts) + 1
  /\ classToasts'[Len(classToasts')].cls = c

\* C15: a successful load leaves the flag of every enrolled class true, and a
\* toggle for class c changes the flag of c and nothing else: the other
\* flags, the enrolled list and the backing tables stay as they are.
C15_ToggleFrame ==
  [][/\ ((pcClasses = "answered" /\ enrollResult.error = "null" /\ pcClasses' = "done") =>
           /\ Len(enrolledClasses') = Len(enrollResult.data)
           /\ DOMAIN notifications' = {enrolledClasses'[k].id : k \in DOMAIN enrolledClasses'}
           /\ \A c \in DOMAIN notifications' : notifications'[c] = TRUE)
     /\ \A c \in ClassIds :
          Toggles(c) =>
            /\ DOMAIN notifications' = DOMAIN notifications
            /\ notifications'[c] = ~notifications[c]
            /\ \A d \in DOMAIN notifications \ {c} : notifications'[d] = notifications[d]
            /\ enrolledClasses' = enrolledClasses
            /\ UNCHANGED <<storeVars, store>>]_vars

\* two classes are enrolled and the switch of one was used once
W15_OneOfTwoToggled ==
  /\ Len(enrolledClasses) = 2
  /\ Len(classToasts) = 1 /\ classToasts[1].cls = "k2"
  /\ notifications["k1"] = TRUE /\ notifications["k2"] = FALSE

\* C16: when there is no authenticated identity or the enrollments query
\* fails, one notification carrying the text of the error is shown, the
\* enrolled list and the notification map stay empty and loading is left;
\* and in every outcome, success or failure, loading eventually is false.
C16_LoadFailure ==
  /\ [][/\ ((pcClasses = "getUser" /\ authUser = "null" /\ pcClasses' # pcClasses) =>
               /\ classToasts' = <<LoadErrorToast("Usuário não autenticado")>>
               /\ enrolledClasses' = <<>> /\ notifications' = NoFlags
               /\ ~loadingClasses')
         /\ ((pcClasses = "answered" /\ enrollResult.error # "null" /\ pcClasses' # pcClasses) =>
               /\ classToasts' = <<LoadErrorToast(enrollResult.error)>>
               /\ enrolledClasses' = <<>> /\ notifications' = NoFlags
               /\ ~loadingClasses')]_vars
  /\ [](pcClasses = "done" => ~loadingClasses)
  /\ <>(pcClasses = "done" /\ ~loadingClasses)
  /\ [][~loadingClasses => ~loadingClasses']_vars

\* the enrollments query of an authenticated user failed
W16_QueryFailed ==
  /\ authUser = Me
  /\ pcClasses = "done" /\ ~loadingClasses
  /\ enrollResult.error = "Failed to fetch"
  /\ Len(classToasts) = 1 /\ classToasts[1].description = "Failed to fetch"
  /\ \E e \in enrollmentsTbl : EnrolledFilter(e, Me)

\* C21: the echo of a send is appended only to the list of its recipient: the
\* recipient of the echo is the contact selected at the moment it is
\* appended, also when the selection changed while the send was in flight.
C21_EchoForSelectedContact ==
  [][\A i \in DOMAIN sends :
       (sends[i].st = "ok" /\ sends' = RemoveAt(sends, i) /\ mounted)
       => /\ Len(messages') = Len(messages) + 1
          /\ messages'[Len(messages')].recipient_id = selectedContact.id]_vars

\* C22: once the history fetch of the selected contact has come back, with a
\* result or with an error, and no other fetch is in flight, every entry of
\* the list is a message between the current identity and the selected
\* contact: a failed fetch after a change of contact does not leave the
\* messages of the previous contact in the list.
C22_ListOfSelectedContact ==
  (mounted /\ ~Idle /\ fetches = <<>>) =>
    \A k \in DOMAIN messages :
      HistoryFilter(messages[k], currentUserId, selectedContact.id)

====
